---- MODULE Spec2Model ----
(***************************************************************************)
(* Model of two components of opencollective-api:                          *)
(*                                                                         *)
(*  - cron/weekly/slack-report.js, the weekly report generator: the        *)
(*    schedule gate, the time window (getTimeFrame), the metric filters    *)
(*    built with merge(), the Promise.props batch of metric queries, the   *)
(*    delivery through slackLib.postMessage and the process exit;          *)
(*  - waitForCondition of the test utilities: a poll loop, a one-shot      *)
(*    timeout timer and a trailing-delay timer over one shared flag.       *)
(*                                                                         *)
(* Four specifications share the module.  Spec is one run of the report    *)
(* process (control flow), SpecFrame the window and filter computation of  *)
(* consecutive weekly runs, SpecMerge the merge of two filters, SpecWait   *)
(* one call of waitForCondition.  Each leaves the other parts' variables   *)
(* at their idle values.                                                   *)
(***************************************************************************)
EXTENDS Integers, Sequences, FiniteSets, TLC

VARIABLES
  \* ---- report process (slack-report.js) ----
  MANUAL,        \* process.env.MANUAL is set
  NODE_ENV,      \* process.env.NODE_ENV
  today,         \* new Date().getDay() at the gate, 0 = Sunday .. 6 = Saturday
  pc,            \* position of the script
  issued,        \* number of metric queries issued by the Promise.props argument
  totalResolved, \* number of metric queries fulfilled so far
  totalRejected, \* number of metric queries rejected so far
  posted,        \* number of calls of slackLib.postMessage
  delivery,      \* state of the promise returned by postMessage
  log,           \* console.log lines, in order
  exitCode,      \* exit status of the process, Running while it runs
  \* ---- time window and filters (slack-report.js) ----
  fpc,           \* position inside one weekly run
  run,           \* index of the weekly run
  START_DATE,    \* reference timestamp of the run: [wall, off]
  thisWeekStartRaw, \* the mutable moment object: [utc, zone]
  thisWeekStart, \* formatted upper bound
  lastWeekStart, \* formatted lower bound
  prevFrame,     \* the window of the previous weekly run
  queryFilter,   \* metric name -> filter handed to the query
  \* ---- merge of two filters ----
  mpc, filterA, filterB, merged,
  \* ---- waitForCondition ----
  options,       \* [timeout, delay, step], 0 = not given
  condKind,      \* behaviour of the predicate
  handler,       \* an uncaughtException handler is installed (test runner)
  alive,         \* the process has not been killed by an uncaught exception
  clock,         \* milliseconds since the call
  hasConditionBeenMet,
  timeoutTimer,  \* due time of the one-shot timeout timer, or Off
  pollTimer,     \* due time of the pending poll step, or Off
  resolveTimer,  \* due time of the trailing-delay timer, or Off
  promise,       \* state of the returned promise
  raised,        \* number of times the timeout failure was thrown
  polls,         \* number of poll steps scheduled
  everTruthy,    \* the predicate has returned a truthy value
  lateEval       \* the predicate was evaluated after the failure was raised

reportVars == <<MANUAL, NODE_ENV, today, pc, issued, totalResolved,
                totalRejected, posted, delivery, log, exitCode>>
frameVars  == <<fpc, run, START_DATE, thisWeekStartRaw, thisWeekStart,
                lastWeekStart, prevFrame, queryFilter>>
mergeVars  == <<mpc, filterA, filterB, merged>>
waitVars   == <<options, condKind, handler, alive, clock, hasConditionBeenMet,
                timeoutTimer, pollTimer, resolveTimer, promise, raised,
                polls, everTruthy, lateEval>>
vars == <<reportVars, frameVars, mergeVars, waitVars>>

(***************************************************************************)
(* Idle values of the parts a specification does not run.                  *)
(***************************************************************************)
Running == -1
Off == -1
None == [wall |-> 0, off |-> 0]

ReportIdle ==
  /\ MANUAL = FALSE /\ NODE_ENV = "development" /\ today = 1
  /\ pc = "idle" /\ issued = 0 /\ totalResolved = 0 /\ totalRejected = 0
  /\ posted = 0 /\ delivery = "none" /\ log = <<>> /\ exitCode = Running

FrameIdle ==
  /\ fpc = "idle" /\ run = 0 /\ START_DATE = None
  /\ thisWeekStartRaw = [utc |-> 0, zone |-> "UTC"]
  /\ thisWeekStart = None /\ lastWeekStart = None /\ prevFrame = <<>>
  /\ queryFilter = <<>>

MergeIdle ==
  /\ mpc = "idle" /\ filterA = {} /\ filterB = {} /\ merged = {}

WaitIdle ==
  /\ options = [timeout |-> 0, delay |-> 0, step |-> 0]
  /\ condKind = "never" /\ handler = FALSE /\ alive = TRUE /\ clock = 0
  /\ hasConditionBeenMet = FALSE
  /\ timeoutTimer = Off /\ pollTimer = Off /\ resolveTimer = Off
  /\ promise = "idle" /\ raised = 0 /\ polls = 0
  /\ everTruthy = FALSE /\ lateEval = FALSE

(***************************************************************************)
(* The report process: slack-report.js, top to bottom.                     *)
(***************************************************************************)
\* The keys of the object passed to Promise.props (lines 86-137).
Metrics == {"donationCount", "donationAmount", "stripeReceivedCount",
            "paypalReceivedCount", "pendingExpenseCount",
            "approvedExpenseCount", "rejectedExpenseCount",
            "paidExpenseCount", "pendingExpenseAmount",
            "approvedExpenseAmount", "rejectedExpenseAmount",
            "paidExpenseAmount", "activeCollectivesWithTransactions",
            "activeCollectivesWithExpenses", "newCollectives"}

Environments == {"production", "development", "test"}
Days == 0..6
Monday == 1
\* process.exit() without an argument: the status is process.exitCode, unset.
DefaultExitCode == 0

Init ==
  /\ MANUAL \in BOOLEAN
  /\ NODE_ENV \in Environments
  /\ today \in Days
  /\ pc = "gate"
  /\ issued = 0 /\ totalResolved = 0 /\ totalRejected = 0
  /\ posted = 0 /\ delivery = "none" /\ log = <<>> /\ exitCode = Running
  /\ FrameIdle /\ MergeIdle /\ WaitIdle

\* process.exit(): nothing of the script runs afterwards.
Exit(line) ==
  /\ log' = Append(log, line)
  /\ exitCode' = DefaultExitCode
  /\ pc' = "exited"

\* Variant of the gate that forgets the day of the week.
MutGateAnyDay ==
  NODE_ENV = "production"

\* The condition of the if at line 159.
GateAborts ==
  NODE_ENV = "production" /\ today # Monday

\* Lines 11-13 and 157-163: the gate aborts the process, ...
onlyExecuteInProdOnMondays ==
  /\ pc = "gate"
  /\ ~MANUAL
  /\ GateAborts
  /\ Exit("script aborted")
  /\ UNCHANGED <<MANUAL, NODE_ENV, today, issued, totalResolved,
                 totalRejected, posted, delivery>>
  /\ UNCHANGED <<frameVars, mergeVars, waitVars>>

\* ... or it lets the script go on: MANUAL set (the function is not called),
\* or the condition at line 159 is false.
GatePasses ==
  /\ pc = "gate"
  /\ MANUAL \/ ~GateAborts
  /\ pc' = "setup"
  /\ UNCHANGED <<MANUAL, NODE_ENV, today, issued, totalResolved,
                 totalRejected, posted, delivery, log, exitCode>>
  /\ UNCHANGED <<frameVars, mergeVars, waitVars>>

\* Lines 15-137: the filters are built and every property of the object
\* given to Promise.props is evaluated, which issues all the queries.
IssueQueries ==
  /\ pc = "setup"
  /\ issued' = Cardinality(Metrics)
  /\ pc' = "waiting"
  /\ UNCHANGED <<MANUAL, NODE_ENV, today, totalResolved, totalRejected,
                 posted, delivery, log, exitCode>>
  /\ UNCHANGED <<frameVars, mergeVars, waitVars>>

Outstanding == issued - totalResolved - totalRejected

\* Promise.props counts the fulfilled properties and is settled by the
\* first rejection; which query settles makes no difference to the script.
\* One query (with its .map) is fulfilled.  Queries keep settling after
\* Promise.props has been rejected, until the process exits.
QueryFulfilled ==
  /\ pc = "waiting"
  /\ Outstanding > 0
  /\ totalResolved' = totalResolved + 1
  /\ UNCHANGED <<MANUAL, NODE_ENV, today, pc, issued, totalRejected,
                 posted, delivery, log, exitCode>>
  /\ UNCHANGED <<frameVars, mergeVars, waitVars>>

\* One query is rejected.
QueryRejected ==
  /\ pc = "waiting"
  /\ Outstanding > 0
  /\ totalRejected' = totalRejected + 1
  /\ UNCHANGED <<MANUAL, NODE_ENV, today, pc, issued, totalResolved,
                 posted, delivery, log, exitCode>>
  /\ UNCHANGED <<frameVars, mergeVars, waitVars>>

\* Variant that goes on as soon as one property is fulfilled.
MutPropsAny ==
  totalResolved >= 1

\* Promise.props is fulfilled when every property is.
PropsFulfilled ==
  totalResolved = issued

\* Promise.props is rejected as soon as one property is.
PropsRejected ==
  totalRejected > 0

\* Lines 139-143: the first then-handler renders the report, logs it and
\* calls postMessage.
PostReport ==
  /\ pc = "waiting"
  /\ PropsFulfilled
  /\ log' = Append(log, "report")
  /\ posted' = posted + 1
  /\ delivery' = "pending"
  /\ pc' = "posting"
  /\ UNCHANGED <<MANUAL, NODE_ENV, today, issued, totalResolved,
                 totalRejected, exitCode>>
  /\ UNCHANGED <<frameVars, mergeVars, waitVars>>

\* The promise returned by postMessage settles.
DeliverySettles ==
  /\ pc = "posting"
  /\ delivery = "pending"
  /\ delivery' \in {"ok", "failed"}
  /\ UNCHANGED <<MANUAL, NODE_ENV, today, pc, issued, totalResolved,
                 totalRejected, posted, log, exitCode>>
  /\ UNCHANGED <<frameVars, mergeVars, waitVars>>

\* Lines 144-147: the second then-handler.
Done ==
  /\ pc = "posting"
  /\ delivery = "ok"
  /\ Exit("Weekly reporting done!")
  /\ UNCHANGED <<MANUAL, NODE_ENV, today, issued, totalResolved,
                 totalRejected, posted, delivery>>
  /\ UNCHANGED <<frameVars, mergeVars, waitVars>>

\* Lines 147-150: the catch-handler, for a rejected query or delivery.
Catch ==
  /\ \/ pc = "waiting" /\ PropsRejected
     \/ pc = "posting" /\ delivery = "failed"
  /\ Exit("err")
  /\ UNCHANGED <<MANUAL, NODE_ENV, today, issued, totalResolved,
                 totalRejected, posted, delivery>>
  /\ UNCHANGED <<frameVars, mergeVars, waitVars>>

Next ==
  \/ onlyExecuteInProdOnMondays
  \/ GatePasses
  \/ IssueQueries
  \/ QueryFulfilled
  \/ QueryRejected
  \/ PostReport
  \/ DeliverySettles
  \/ Done
  \/ Catch

Spec == Init /\ [][Next]_vars

\* The run failed: a metric query or the delivery was rejected.
FailedRun == totalRejected > 0 \/ delivery = "failed"

\* The gate's aborting combination of the environment.
AbortCase == ~MANUAL /\ NODE_ENV = "production" /\ today # Monday

\* C1: with MANUAL unset, NODE_ENV 'production' and a day other than Monday
\* the process ends at the gate, before any query is issued and before any
\* message is posted; in every other combination the gate lets the script
\* pass and the metric queries are issued.
C1_ScheduleGate ==
  /\ AbortCase =>
       /\ issued = 0 /\ posted = 0
       /\ pc \in {"gate", "exited"}
       /\ pc = "exited" => log = <<"script aborted">>
  /\ ~AbortCase =>
       /\ pc \in {"gate", "setup"} \/ issued = Cardinality(Metrics)
       /\ pc = "exited" => log # <<"script aborted">>

C1_Witness ==
  AbortCase /\ pc = "exited" /\ exitCode # Running

\* C2: postMessage is called at most once, only after every metric query
\* has been fulfilled; when any metric query is rejected it is never called.
C2_PostOnceAfterAll ==
  /\ posted <= 1
  /\ posted >= 1 => totalResolved = Cardinality(Metrics) /\ totalRejected = 0
  /\ totalRejected > 0 => posted = 0

C2_Witness ==
  posted = 1 /\ totalResolved = Cardinality(Metrics) /\ pc = "posting"

\* C3: a run that failed (a rejected query or a rejected delivery) exits
\* with a status different from the status of a successful run.
C3_FailureExitStatus ==
  (pc = "exited" /\ FailedRun) => exitCode # DefaultExitCode

(***************************************************************************)
(* waitForCondition (test utilities, lines 72-92).  Time is in             *)
(* milliseconds; the clock jumps to the next pending timer.                *)
(***************************************************************************)
DefaultTimeout == 10000
DefaultStep == 100
DefaultDelay == 0
\* The clock stops here: the poll loop of a surviving process never ends.
MaxClock == 10250

Timeouts == {0, 50, 250}
Delays == {0, 30}
Steps == {0, 20}

\* a || b of JavaScript on numbers: 0 and undefined are both falsy.
Or(a, b) == IF a # 0 THEN a ELSE b

\* What cond() may return at one evaluation.
CondValues ==
  CASE condKind = "never" -> {FALSE}
    [] condKind = "always" -> {TRUE}
    [] OTHER -> BOOLEAN

InitWait ==
  /\ options \in [timeout : Timeouts, delay : Delays, step : Steps]
  /\ condKind \in {"never", "always", "any"}
  /\ handler \in BOOLEAN
  /\ alive = TRUE /\ clock = 0
  /\ hasConditionBeenMet = FALSE
  /\ timeoutTimer = Off /\ pollTimer = Off /\ resolveTimer = Off
  /\ promise = "idle" /\ raised = 0 /\ polls = 0
  /\ everTruthy = FALSE /\ lateEval = FALSE
  /\ ReportIdle /\ FrameIdle /\ MergeIdle

\* Lines 80-90: the body of isConditionMet, cond() having returned result.
isConditionMet(result) ==
  /\ hasConditionBeenMet' = result
  /\ everTruthy' = (everTruthy \/ result)
  /\ lateEval' = (lateEval \/ raised > 0)
  /\ IF result
       THEN /\ resolveTimer' = clock + Or(options.delay, DefaultDelay)
            /\ pollTimer' = Off
            /\ polls' = polls
       ELSE /\ pollTimer' = clock + Or(options.step, DefaultStep)
            /\ resolveTimer' = resolveTimer
            /\ polls' = polls + 1

\* Lines 72-91: the executor of the promise: the flag, the timeout timer and
\* the first, synchronous call of isConditionMet.
waitForCondition ==
  /\ alive /\ promise = "idle"
  /\ promise' = "pending"
  /\ timeoutTimer' = clock + Or(options.timeout, DefaultTimeout)
  /\ \E result \in CondValues : isConditionMet(result)
  /\ UNCHANGED <<options, condKind, handler, alive, clock, raised>>
  /\ UNCHANGED <<reportVars, frameVars, mergeVars>>

Due(t) == t # Off /\ t <= clock

\* Line 88: the poll timer fires and isConditionMet runs again.
PollStep ==
  /\ alive /\ Due(pollTimer)
  /\ \E result \in CondValues : isConditionMet(result)
  /\ UNCHANGED <<options, condKind, handler, alive, clock, timeoutTimer,
                 promise, raised>>
  /\ UNCHANGED <<reportVars, frameVars, mergeVars>>

\* Variant of the timeout callback without the latch.
MutNoLatch == FALSE

\* Line 75: the latch checked by the timeout callback.
LatchSet == hasConditionBeenMet

\* Lines 74-79: the timeout callback.  The throw happens in a timer
\* callback, outside the promise: it is an uncaught exception, which ends
\* the process unless an uncaughtException handler is installed.
TimeoutFires ==
  /\ alive /\ Due(timeoutTimer)
  /\ timeoutTimer' = Off
  /\ IF LatchSet
       THEN UNCHANGED <<raised, alive>>
       ELSE /\ raised' = raised + 1
            /\ alive' = handler
  /\ UNCHANGED <<options, condKind, handler, clock, hasConditionBeenMet,
                 pollTimer, resolveTimer, promise, polls, everTruthy,
                 lateEval>>
  /\ UNCHANGED <<reportVars, frameVars, mergeVars>>

\* Line 86: the trailing-delay timer fires and calls resolve.
Resolve ==
  /\ alive /\ Due(resolveTimer)
  /\ resolveTimer' = Off
  /\ promise' = "resolved"
  /\ UNCHANGED <<options, condKind, handler, alive, clock,
                 hasConditionBeenMet, timeoutTimer, pollTimer, raised, polls,
                 everTruthy, lateEval>>
  /\ UNCHANGED <<reportVars, frameVars, mergeVars>>

Pending == {t \in {timeoutTimer, pollTimer, resolveTimer} : t # Off}

\* The event loop sleeps until the earliest pending timer is due.
Advance ==
  /\ alive /\ Pending # {}
  /\ \A t \in Pending : t > clock
  /\ \E t \in Pending :
       /\ \A u \in Pending : t <= u
       /\ t <= MaxClock
       /\ clock' = t
  /\ UNCHANGED <<options, condKind, handler, alive, hasConditionBeenMet,
                 timeoutTimer, pollTimer, resolveTimer, promise, raised,
                 polls, everTruthy, lateEval>>
  /\ UNCHANGED <<reportVars, frameVars, mergeVars>>

NextWait ==
  \/ waitForCondition
  \/ PollStep
  \/ TimeoutFires
  \/ Resolve
  \/ Advance

SpecWait == InitWait /\ [][NextWait]_vars

\* The timeout of the call has elapsed and its callback has run.
TimedOut == promise # "idle" /\ timeoutTimer = Off

\* C4: with a predicate that is never truthy, once the timeout has elapsed
\* the returned promise is settled with the timeout failure (it does not
\* stay pending); with a predicate truthy at its first evaluation the
\* promise resolves without any poll step having been scheduled.
C4_TimeoutSettles ==
  /\ (condKind = "never" /\ TimedOut) => promise = "rejected"
  /\ (condKind = "always" /\ promise = "resolved") => polls = 0

\* C8: once the predicate has returned a truthy value, no step raises the
\* timeout failure, whenever the timeout timer fires, the trailing delay
\* included.
C8_NoRaiseAfterMet ==
  [][everTruthy => raised' = raised]_vars

\* The timeout fired during the trailing delay and raised nothing.
C8_Witness ==
  /\ everTruthy /\ TimedOut /\ raised = 0
  /\ promise = "pending" /\ resolveTimer # Off

\* C9: after the timeout failure has been raised the predicate is not
\* evaluated again, no poll timer is pending and the promise is never
\* resolved.
C9_StopsAfterTimeout ==
  raised > 0 => (~lateEval /\ promise # "resolved")

(***************************************************************************)
(* The time window: getTimeFrame (slack-report.js, lines 165-181).         *)
(* Time is in hours.  Hour 0 is Monday 2018-01-01 00:00 UTC; a wall-clock  *)
(* reading is counted from Monday 2018-01-01 00:00 of its own zone.        *)
(***************************************************************************)
HoursPerWeek == 168
\* add(9, 'hours'), line 169.
HourOffset == 9
\* America/New_York, 2018: EDT from 2018-03-11 07:00 UTC until 2018-11-04
\* 06:00 UTC, EST otherwise.
DstStart == 1663
DstEnd == 7374
EST == -5
EDT == -4
\* Reference instants are taken up to this many hours around each change
\* of offset, and so cover the weeks before, across and after it.
MaxSpan == 180
\* Weekly runs after the first one.
MaxRuns == 1

\* UTC offsets (hours) a START_DATE string may carry.
Offsets == {-8, 0, 9}

RefHours == ((DstStart - MaxSpan)..(DstStart + MaxSpan))
              \cup ((DstEnd - MaxSpan)..(DstEnd + MaxSpan))

\* The offset of a zone at a UTC instant.
ZoneOffset(zone, utc) ==
  IF zone = "America/New_York"
    THEN IF utc >= DstStart /\ utc < DstEnd THEN EDT ELSE EST
    ELSE 0

\* moment(string): the instant a timestamp with its own offset denotes.
Parse(date) == date.wall - date.off

\* The wall-clock reading of a moment in its zone.
Wall(m) == m.utc + ZoneOffset(m.zone, m.utc)

\* The moment of a zone whose wall clock reads w (the standard-time reading
\* where it exists, the daylight-time reading otherwise).
FromWall(zone, w) ==
  LET std == w - ZoneOffset(zone, DstStart - 1)
      dst == w - ZoneOffset(zone, DstStart)
  IN  IF std + ZoneOffset(zone, std) = w
        THEN [utc |-> std, zone |-> zone]
        ELSE [utc |-> dst, zone |-> zone]

\* .tz(zone): the same instant, read in the zone.
Tz(utc, zone) == [utc |-> utc, zone |-> zone]

\* .startOf('isoWeek'): Monday 00:00 of the wall-clock week.
StartOfIsoWeek(m) == FromWall(m.zone, Wall(m) - (Wall(m) % HoursPerWeek))

\* .add(n, 'hours'): n hours of elapsed time.
AddHours(m, n) == [utc |-> m.utc + n, zone |-> m.zone]

\* Variant that subtracts 168 elapsed hours.
MutSubtractElapsedWeek(m) == [utc |-> m.utc - HoursPerWeek, zone |-> m.zone]

\* .subtract(1, 'week'): the same wall-clock reading seven days earlier.
SubtractWeek(m) == FromWall(m.zone, Wall(m) - HoursPerWeek)

\* .format(): the wall-clock reading followed by the offset.
Format(m) == [wall |-> Wall(m), off |-> ZoneOffset(m.zone, m.utc)]

\* The instant the data store reads from a formatted timestamp.
Instant(f) == f.wall - f.off

InitFrame ==
  /\ fpc = "start" /\ run = 0
  /\ \E utc \in RefHours, off \in Offsets :
       START_DATE = [wall |-> utc + off, off |-> off]
  /\ thisWeekStartRaw = [utc |-> 0, zone |-> "UTC"]
  /\ thisWeekStart = None /\ lastWeekStart = None /\ prevFrame = <<>>
  /\ queryFilter = <<>>
  /\ ReportIdle /\ MergeIdle /\ WaitIdle

\* Lines 166-170: thisWeekStartRaw and its formatted copy.
ThisWeekStart ==
  /\ fpc = "start"
  /\ thisWeekStartRaw' =
       AddHours(StartOfIsoWeek(Tz(Parse(START_DATE), "America/New_York")),
                HourOffset)
  /\ thisWeekStart' = Format(thisWeekStartRaw')
  /\ fpc' = "upper"
  /\ UNCHANGED <<run, START_DATE, lastWeekStart, prevFrame, queryFilter>>
  /\ UNCHANGED <<reportVars, mergeVars, waitVars>>

\* Line 171: subtract() changes the moment object in place; thisWeekStart
\* is a string made before.
LastWeekStart ==
  /\ fpc = "upper"
  /\ thisWeekStartRaw' = SubtractWeek(thisWeekStartRaw)
  /\ lastWeekStart' = Format(thisWeekStartRaw')
  /\ fpc' = "framed"
  /\ UNCHANGED <<run, START_DATE, thisWeekStart, prevFrame, queryFilter>>
  /\ UNCHANGED <<reportVars, mergeVars, waitVars>>

(***************************************************************************)
(* Metric filters.  An options object is the set of its leaves: the key    *)
(* path from the root and the value found there.  A value that is not a    *)
(* plain object (string, number, null, array) is one leaf.                 *)
(***************************************************************************)
Str(text) == [s |-> text, wall |-> 0, off |-> 0]
Date(f) == [s |-> "date", wall |-> f.wall, off |-> f.off]
Entry(path, val) == [path |-> path, val |-> val]

IsPrefix(p, q) == Len(p) <= Len(q) /\ SubSeq(q, 1, Len(p)) = p

\* Two key paths of which one encloses the other: the later value replaces
\* what the earlier object holds there.
Conflict(p, q) == IsPrefix(p, q) \/ IsPrefix(q, p)

\* One step of merge: plain objects are merged key by key, recursively; any
\* other value of the source replaces the value merged so far.
MergeInto(target, source) ==
  {e \in target : \A f \in source : ~Conflict(e.path, f.path)} \cup source

RECURSIVE MergeAll(_, _)
MergeAll(acc, objects) ==
  IF objects = <<>> THEN acc
  ELSE MergeAll(MergeInto(acc, Head(objects)), Tail(objects))

\* Variant that merges the top-level keys only (Object.assign).
RECURSIVE MutShallowMerge(_)
MutShallowMerge(objects) ==
  IF objects = <<>> THEN {}
  ELSE LET rest == MutShallowMerge(SubSeq(objects, 1, Len(objects) - 1))
           last == objects[Len(objects)]
       IN  {e \in rest : \A f \in last : e.path[1] # f.path[1]} \cup last

\* merge(...objects) of merge-options (line 5): a new object, the arguments
\* merged from left to right.
merge(objects) == MergeAll({}, objects)

\* Lines 173-180: the object getTimeFrame returns.
getTimeFrame(propName) ==
  {Entry(<<"where", propName, "Op.gt">>, Date(lastWeekStart)),
   Entry(<<"where", propName, "Op.lt">>, Date(thisWeekStart))}

\* Lines 22-80.
createdLastWeek == getTimeFrame("createdAt")
updatedLastWeek == getTimeFrame("updatedAt")
donation ==
  {Entry(<<"where", "OrderId", "Op.not">>, Str("null")),
   Entry(<<"where", "platformFeeInHostCurrency", "Op.lt">>, Str("0"))}
pendingExpense == {Entry(<<"where", "status">>, Str("PENDING"))}
approvedExpense == {Entry(<<"where", "status">>, Str("APPROVED"))}
rejectedExpense == {Entry(<<"where", "status">>, Str("REJECTED"))}
paidExpense == {Entry(<<"where", "status">>, Str("PAID"))}
credit == {Entry(<<"where", "type">>, Str("CREDIT"))}
excludeOcTeam == {Entry(<<"where", "CollectiveId", "Op.not">>, Str("1"))}

lastWeekDonations ==
  merge(<<{}, createdLastWeek, donation, excludeOcTeam, credit>>)
lastWeekExpenses == merge(<<{}, updatedLastWeek, excludeOcTeam>>)
pendingLastWeekExpenses == merge(<<{}, lastWeekExpenses, pendingExpense>>)
approvedLastWeekExpenses == merge(<<{}, lastWeekExpenses, approvedExpense>>)
rejectedLastWeekExpenses == merge(<<{}, lastWeekExpenses, rejectedExpense>>)
paidLastWeekExpenses == merge(<<{}, lastWeekExpenses, paidExpense>>)
collectiveByCurrency ==
  {Entry(<<"plain">>, Str("false")),
   Entry(<<"group">>, Str("['currency']")),
   Entry(<<"attributes">>, Str("['currency']")),
   Entry(<<"order">>, Str("['currency']"))}
onlyIncludeCollectiveType ==
  {Entry(<<"include">>,
         Str("[{model: Collective, as: 'collective', where: {type: 'COLLECTIVE'}}]"))}
stripeReceived == {Entry(<<"where", "type">>, Str("WEBHOOK_STRIPE_RECEIVED"))}
paypalReceived == {Entry(<<"where", "type">>, Str("WEBHOOK_PAYPAL_RECEIVED"))}
distinct ==
  {Entry(<<"plain">>, Str("false")), Entry(<<"distinct">>, Str("true"))}
\* The object literals of lines 125, 129 and 133.
collectiveIdAttribute == {Entry(<<"attributes">>, Str("['CollectiveId']"))}
collectiveSlugAndTags ==
  {Entry(<<"attributes">>, Str("['slug', 'tags']")),
   Entry(<<"where", "type">>, Str("COLLECTIVE"))}

\* Lines 86-137: the filter each metric query is called with.
FilterOf(m) ==
  CASE m = "donationCount" -> lastWeekDonations
    [] m = "donationAmount" ->
         merge(<<{}, lastWeekDonations, collectiveByCurrency>>)
    [] m = "stripeReceivedCount" ->
         merge(<<{}, createdLastWeek, stripeReceived>>)
    [] m = "paypalReceivedCount" ->
         merge(<<{}, createdLastWeek, paypalReceived>>)
    [] m = "pendingExpenseCount" -> pendingLastWeekExpenses
    [] m = "approvedExpenseCount" -> approvedLastWeekExpenses
    [] m = "rejectedExpenseCount" -> rejectedLastWeekExpenses
    [] m = "paidExpenseCount" -> paidLastWeekExpenses
    [] m = "pendingExpenseAmount" ->
         merge(<<{}, pendingLastWeekExpenses, collectiveByCurrency>>)
    [] m = "approvedExpenseAmount" ->
         merge(<<{}, approvedLastWeekExpenses, collectiveByCurrency>>)
    [] m = "rejectedExpenseAmount" ->
         merge(<<{}, rejectedLastWeekExpenses, collectiveByCurrency>>)
    [] m = "paidExpenseAmount" ->
         merge(<<{}, paidLastWeekExpenses, collectiveByCurrency>>)
    [] m = "activeCollectivesWithTransactions" ->
         merge(<<collectiveIdAttribute, createdLastWeek, distinct,
                 excludeOcTeam, onlyIncludeCollectiveType>>)
    [] m = "activeCollectivesWithExpenses" ->
         merge(<<collectiveIdAttribute, updatedLastWeek, distinct,
                 excludeOcTeam>>)
    [] m = "newCollectives" ->
         merge(<<{}, collectiveSlugAndTags, createdLastWeek>>)

\* Lines 186-193 of reportString: the metrics rendered under the
\* 'Donations' and the 'Expenses' headers.
DonationMetrics == {"donationCount", "donationAmount", "stripeReceivedCount"}
ExpenseMetrics == {"pendingExpenseCount", "pendingExpenseAmount",
                   "approvedExpenseCount", "approvedExpenseAmount",
                   "rejectedExpenseCount", "rejectedExpenseAmount",
                   "paidExpenseCount", "paidExpenseAmount"}

\* Lines 82-137: the queries are issued, each with its filter.
BuildQueries ==
  /\ fpc = "framed"
  /\ queryFilter' = [m \in Metrics |-> FilterOf(m)]
  /\ fpc' = "queried"
  /\ UNCHANGED <<run, START_DATE, thisWeekStartRaw, thisWeekStart,
                 lastWeekStart, prevFrame>>
  /\ UNCHANGED <<reportVars, mergeVars, waitVars>>

\* The scheduler starts the script again one week later.
NextWeek ==
  /\ fpc = "queried"
  /\ run < MaxRuns
  /\ run' = run + 1
  /\ prevFrame' = <<[gt |-> lastWeekStart, lt |-> thisWeekStart]>>
  /\ START_DATE' = [START_DATE EXCEPT !.wall = @ + HoursPerWeek]
  /\ fpc' = "start"
  /\ queryFilter' = <<>>
  /\ UNCHANGED <<thisWeekStartRaw, thisWeekStart, lastWeekStart>>
  /\ UNCHANGED <<reportVars, mergeVars, waitVars>>

NextFrame ==
  \/ ThisWeekStart
  \/ LastWeekStart
  \/ BuildQueries
  \/ NextWeek

SpecFrame == InitFrame /\ [][NextFrame]_vars

\* The timestamps a filter lets through on a field, its bounds read as the
\* data store reads them.
InWindow(t, filter, propName) ==
  /\ \A e \in filter :
       e.path = <<"where", propName, "Op.gt">> => t > Instant(e.val)
  /\ \A e \in filter :
       e.path = <<"where", propName, "Op.lt">> => t < Instant(e.val)

\* C7: thisWeekStart is Monday 09:00 America/New_York of the ISO week that
\* holds the reference instant in that zone, whatever offset START_DATE is
\* written with; lastWeekStart is the same reading seven days earlier; and
\* computing lastWeekStart leaves thisWeekStart as it was.
C7_TimeFrame ==
  LET ny == Wall(Tz(Parse(START_DATE), "America/New_York"))
      monday == thisWeekStart.wall - HourOffset
  IN  /\ fpc \in {"upper", "framed", "queried"} =>
           /\ monday % HoursPerWeek = 0
           /\ monday <= ny /\ ny < monday + HoursPerWeek
           /\ thisWeekStart.off =
                ZoneOffset("America/New_York", Instant(thisWeekStart))
      /\ fpc \in {"framed", "queried"} =>
           /\ lastWeekStart.wall = thisWeekStart.wall - HoursPerWeek
           /\ lastWeekStart.off =
                ZoneOffset("America/New_York", Instant(lastWeekStart))

\* A window that spans a change of offset: 7 days of 167 elapsed hours.
C7_Witness ==
  /\ fpc = "framed"
  /\ START_DATE.off # thisWeekStart.off
  /\ Instant(thisWeekStart) - Instant(lastWeekStart) # HoursPerWeek

\* C5: every query feeding the 'Donations' or the 'Expenses' section of
\* the report carries the constraint CollectiveId != 1.
C5_OperatorExcluded ==
  fpc = "queried" =>
    \A m \in DonationMetrics \cup ExpenseMetrics :
      excludeOcTeam \subseteq queryFilter[m]

\* C10: exactly one of the two bounds of the window belongs to it, so a
\* record stamped with the boundary between two consecutive weekly windows
\* is counted by exactly one of them.
C10_HalfOpenWindow ==
  fpc = "queried" =>
    LET f == queryFilter["donationCount"]
        lo == Instant(lastWeekStart)
        hi == Instant(thisWeekStart)
    IN  /\ InWindow(lo, f, "createdAt") # InWindow(hi, f, "createdAt")
        /\ (prevFrame # <<>> /\ Instant(prevFrame[1].lt) = lo) =>
             (InWindow(lo, f, "createdAt")
                # (Instant(prevFrame[1].gt) < lo /\ lo < Instant(prevFrame[1].lt)))

(***************************************************************************)
(* merge({}, A, B) on the filters of slack-report.js.                      *)
(***************************************************************************)
\* Every filter the script defines or builds (lines 22-137).
FilterPool ==
  {createdLastWeek, updatedLastWeek, donation, pendingExpense,
   approvedExpense, rejectedExpense, paidExpense, credit, excludeOcTeam,
   lastWeekDonations, lastWeekExpenses, pendingLastWeekExpenses,
   approvedLastWeekExpenses, rejectedLastWeekExpenses, paidLastWeekExpenses,
   collectiveByCurrency, onlyIncludeCollectiveType, stripeReceived,
   paypalReceived, distinct, collectiveIdAttribute, collectiveSlugAndTags}
    \cup {FilterOf(m) : m \in Metrics}

\* Each merge call of the script: its result and its arguments.
MergeCalls ==
  {<<lastWeekDonations, <<createdLastWeek, donation, excludeOcTeam, credit>>>>,
   <<lastWeekExpenses, <<updatedLastWeek, excludeOcTeam>>>>,
   <<pendingLastWeekExpenses, <<lastWeekExpenses, pendingExpense>>>>,
   <<approvedLastWeekExpenses, <<lastWeekExpenses, approvedExpense>>>>,
   <<rejectedLastWeekExpenses, <<lastWeekExpenses, rejectedExpense>>>>,
   <<paidLastWeekExpenses, <<lastWeekExpenses, paidExpense>>>>,
   <<FilterOf("donationAmount"), <<lastWeekDonations, collectiveByCurrency>>>>,
   <<FilterOf("stripeReceivedCount"), <<createdLastWeek, stripeReceived>>>>,
   <<FilterOf("paypalReceivedCount"), <<createdLastWeek, paypalReceived>>>>,
   <<FilterOf("pendingExpenseAmount"),
     <<pendingLastWeekExpenses, collectiveByCurrency>>>>,
   <<FilterOf("approvedExpenseAmount"),
     <<approvedLastWeekExpenses, collectiveByCurrency>>>>,
   <<FilterOf("rejectedExpenseAmount"),
     <<rejectedLastWeekExpenses, collectiveByCurrency>>>>,
   <<FilterOf("paidExpenseAmount"),
     <<paidLastWeekExpenses, collectiveByCurrency>>>>,
   <<FilterOf("activeCollectivesWithTransactions"),
     <<collectiveIdAttribute, createdLastWeek, distinct, excludeOcTeam,
       onlyIncludeCollectiveType>>>>,
   <<FilterOf("activeCollectivesWithExpenses"),
     <<collectiveIdAttribute, updatedLastWeek, distinct, excludeOcTeam>>>>,
   <<FilterOf("newCollectives"), <<collectiveSlugAndTags, createdLastWeek>>>>}

\* Reference instants of the windows the filters are built with.
MergeRefHours == {DstStart - HoursPerWeek, DstStart + HoursPerWeek}

InitMerge ==
  /\ mpc = "start"
  /\ \E utc \in MergeRefHours :
       LET upper == AddHours(StartOfIsoWeek(Tz(utc, "America/New_York")),
                             HourOffset)
       IN  /\ thisWeekStart = Format(upper)
           /\ lastWeekStart = Format(SubtractWeek(upper))
           /\ thisWeekStartRaw = SubtractWeek(upper)
           /\ START_DATE = [wall |-> utc, off |-> 0]
  /\ fpc = "framed" /\ run = 0 /\ prevFrame = <<>> /\ queryFilter = <<>>
  /\ filterA \in FilterPool
  /\ filterB \in FilterPool
  /\ merged = {}
  /\ ReportIdle /\ WaitIdle

\* merge({}, A, B).
MergeTwo ==
  /\ mpc = "start"
  /\ merged' = merge(<<{}, filterA, filterB>>)
  /\ mpc' = "merged"
  /\ UNCHANGED <<filterA, filterB>>
  /\ UNCHANGED <<reportVars, frameVars, waitVars>>

NextMerge == MergeTwo

SpecMerge == InitMerge /\ [][NextMerge]_vars

\* C6 as stated: every constraint of A and of B is in merge({}, A, B), also
\* when both constrain the same field.
C6_NeverDrops ==
  mpc = "merged" => (filterA \cup filterB) \subseteq merged

\* C6 as amended: merge({}, A, B) holds every constraint of B, and every
\* constraint of A but those at a key path that B sets too (or that
\* encloses, or is enclosed by, one B sets), where B's value stands; and
\* every filter the script builds holds every constraint of each filter it
\* was merged from.
C6_MergeKeepsUnlessReplaced ==
  /\ mpc = "merged" =>
       /\ filterB \subseteq merged
       /\ \A e \in filterA :
            \/ e \in merged
            \/ \E f \in filterB : f # e /\ Conflict(e.path, f.path)
       /\ merged \subseteq filterA \cup filterB
  /\ \A call \in MergeCalls :
       \A i \in 1..Len(call[2]) : call[2][i] \subseteq call[1]

\* Two filters constraining the same field differently: B's value stands.
C6_Witness ==
  /\ mpc = "merged"
  /\ \E e \in filterA : e \notin merged
  /\ \E e \in filterA : e \in merged
  /\ filterB \subseteq merged

====
